---------------------------- MODULE Spec2Model ----------------------------
(***************************************************************************)
(* Sleep_Detector: the POST /detect handler of hackersss/app.py and the    *)
(* detect_sleep function of groq_vision.py.                                *)
(*                                                                         *)
(* Python strings are sequences of one-character strings.  The grave       *)
(* accent (U+0060) cannot be written inside a TLA+ string literal, so that *)
(* one character is denoted by the symbol BACKTICK.                        *)
(* Python and JSON values are tagged records [t |-> type, v |-> payload].  *)
(***************************************************************************)
EXTENDS Integers, Sequences, FiniteSets, TLC

BACKTICK == "BACKTICK"

----------------------------------------------------------------------------
(* String literals of the two source files.                                *)

K_status == <<"s", "t", "a", "t", "u", "s">>
K_confidence == <<"c", "o", "n", "f", "i", "d", "e", "n", "c", "e">>
K_details == <<"d", "e", "t", "a", "i", "l", "s">>
K_image == <<"i", "m", "a", "g", "e">>
S_sleeping == <<"s", "l", "e", "e", "p", "i", "n", "g">>
S_awake == <<"a", "w", "a", "k", "e">>
S_error == <<"e", "r", "r", "o", "r">>
S_high == <<"h", "i", "g", "h">>
S_medium == <<"m", "e", "d", "i", "u", "m">>
S_low == <<"l", "o", "w">>
S_none == <<"n", "o", "n", "e">>
S_sleep == <<"s", "l", "e", "e", "p">>
AnalysisCompleted ==
    << "A", "n", "a", "l", "y", "s", "i", "s", " ", "c", "o", "m", "p", "l", "e", "t", "e", "d" >>
FallbackSleepingDetails ==
    << "P", "e", "r", "s", "o", "n", " ", "a", "p", "p", "e", "a", "r", "s", " ", "t", "o", " ",
       "b", "e", " ", "s", "l", "e", "e", "p", "i", "n", "g", " ", "b", "a", "s", "e", "d", " ",
       "o", "n", " ", "i", "m", "a", "g", "e", " ", "a", "n", "a", "l", "y", "s", "i", "s" >>
FallbackAwakeDetails ==
    << "C", "o", "u", "l", "d", " ", "n", "o", "t", " ", "p", "a", "r", "s", "e", " ", "m", "o",
       "d", "e", "l", " ", "r", "e", "s", "p", "o", "n", "s", "e", " ", "c", "l", "e", "a", "r",
       "l", "y" >>
ErrorDetailsPrefix ==
    << "E", "r", "r", "o", "r", " ", "d", "u", "r", "i", "n", "g", " ", "a", "n", "a", "l", "y",
       "s", "i", "s", ":", " " >>
NoImageDetails ==
    << "N", "o", " ", "i", "m", "a", "g", "e", " ", "d", "a", "t", "a", " ", "p", "r", "o", "v",
       "i", "d", "e", "d", ".", " ", "S", "e", "n", "d", " ", "J", "S", "O", "N", " ", "w", "i",
       "t", "h", " ", "'", "i", "m", "a", "g", "e", "'", " ", "k", "e", "y", " ", "c", "o", "n",
       "t", "a", "i", "n", "i", "n", "g", " ", "b", "a", "s", "e", "6", "4", " ", "d", "a", "t",
       "a", "." >>
TooSmallDetails ==
    << "I", "m", "a", "g", "e", " ", "d", "a", "t", "a", " ", "a", "p", "p", "e", "a", "r", "s",
       " ", "t", "o", "o", " ", "s", "m", "a", "l", "l", " ", "o", "r", " ", "i", "n", "v", "a",
       "l", "i", "d", "." >>
DataScheme == <<"d", "a", "t", "a", ":">>
JpegPrefix ==
    << "d", "a", "t", "a", ":", "i", "m", "a", "g", "e", "/", "j", "p", "e", "g", ";", "b", "a",
       "s", "e", "6", "4", "," >>
Fence == <<BACKTICK, BACKTICK, BACKTICK>>
Comma == <<",">>
Newline == <<"\n">>

----------------------------------------------------------------------------
(* Python str methods used by the code.                                    *)

UpperLetters ==
    << "A", "B", "C", "D", "E", "F", "G", "H", "I", "J", "K", "L", "M",
       "N", "O", "P", "Q", "R", "S", "T", "U", "V", "W", "X", "Y", "Z" >>
LowerLetters ==
    << "a", "b", "c", "d", "e", "f", "g", "h", "i", "j", "k", "l", "m",
       "n", "o", "p", "q", "r", "s", "t", "u", "v", "w", "x", "y", "z" >>
PyWhitespace == {" ", "\t", "\n", "\r", "\f"}

LowerChar(c) ==
    IF \E i \in 1..26 : UpperLetters[i] = c
    THEN LowerLetters[CHOOSE i \in 1..26 : UpperLetters[i] = c]
    ELSE c

\* str.lower()
Lower(s) == [i \in 1..Len(s) |-> LowerChar(s[i])]

\* str.startswith(p)
StartsWith(s, p) == Len(s) >= Len(p) /\ SubSeq(s, 1, Len(p)) = p

\* p in s, for two strings
Contains(s, p) ==
    \E i \in 1..(Len(s) - Len(p) + 1) : SubSeq(s, i, i + Len(p) - 1) = p

\* str.strip()
Strip(s) ==
    LET keep == {i \in 1..Len(s) : s[i] \notin PyWhitespace}
    IN  IF keep = {} THEN <<>>
        ELSE LET lo == CHOOSE i \in keep : \A j \in keep : i <= j
                 hi == CHOOSE i \in keep : \A j \in keep : j <= i
             IN  SubSeq(s, lo, hi)

\* str.split(sep) for a one-character separator: never empty, keeps empty pieces
RECURSIVE Split(_, _)
Split(s, sep) ==
    IF \A i \in 1..Len(s) : s[i] # sep THEN <<s>>
    ELSE LET k == CHOOSE i \in 1..Len(s) :
                      s[i] = sep /\ \A j \in 1..(i - 1) : s[j] # sep
         IN  <<SubSeq(s, 1, k - 1)>> \o Split(SubSeq(s, k + 1, Len(s)), sep)

\* sep.join(parts)
RECURSIVE Join(_, _)
Join(parts, sep) ==
    IF parts = <<>> THEN <<>>
    ELSE IF Len(parts) = 1 THEN parts[1]
    ELSE parts[1] \o sep \o Join(Tail(parts), sep)

----------------------------------------------------------------------------
(* Python values.                                                          *)

PyStr(s) == [t |-> "str", v |-> s]
PyInt(n) == [t |-> "int", v |-> n]
PyBool(b) == [t |-> "bool", v |-> b]
PyNone == [t |-> "NoneType", v |-> 0]
PyList(items) == [t |-> "list", v |-> items]
\* a dict is a function from its keys (strings) to its values
PyDict(f) == [t |-> "dict", v |-> f]
EmptyMap == [k \in {} |-> PyNone]

\* d[k] = x on a dict's map
SetItem(f, k, x) == [j \in DOMAIN f \cup {k} |-> IF j = k THEN x ELSE f[j]]

----------------------------------------------------------------------------
(* json.loads: a recursive-descent parser of the text.  Strings carry no   *)
(* escapes and reject control characters (strict mode); numbers are        *)
(* non-negative integers without a leading zero.                           *)

JsonWhitespace == {" ", "\t", "\n", "\r"}
ControlChars == {"\t", "\n", "\r", "\f"}
Digits == <<"0", "1", "2", "3", "4", "5", "6", "7", "8", "9">>
IsDigit(c) == \E i \in 1..10 : Digits[i] = c
DigitVal(c) == (CHOOSE i \in 1..10 : Digits[i] = c) - 1

JFail == [ok |-> FALSE, val |-> PyNone, pos |-> 0]
JOk(x, p) == [ok |-> TRUE, val |-> x, pos |-> p]

RECURSIVE SkipWs(_, _)
SkipWs(txt, i) ==
    IF i <= Len(txt) /\ txt[i] \in JsonWhitespace THEN SkipWs(txt, i + 1) ELSE i

\* txt[i] is the opening quote
RECURSIVE ScanString(_, _, _)
ScanString(txt, i, j) ==
    IF j > Len(txt) THEN JFail
    ELSE IF txt[j] = "\"" THEN JOk(PyStr(SubSeq(txt, i + 1, j - 1)), j + 1)
    ELSE IF txt[j] \in ControlChars \/ txt[j] = "\\" THEN JFail
    ELSE ScanString(txt, i, j + 1)

RECURSIVE ScanDigits(_, _, _)
ScanDigits(txt, j, acc) ==
    IF j <= Len(txt) /\ IsDigit(txt[j])
    THEN ScanDigits(txt, j + 1, 10 * acc + DigitVal(txt[j]))
    ELSE JOk(PyInt(acc), j)

ScanNumber(txt, i) ==
    IF txt[i] = "0" THEN JOk(PyInt(0), i + 1) ELSE ScanDigits(txt, i, 0)

ScanLiteral(txt, i, word, x) ==
    IF Len(txt) >= i + Len(word) - 1 /\ SubSeq(txt, i, i + Len(word) - 1) = word
    THEN JOk(x, i + Len(word))
    ELSE JFail

RECURSIVE ParseValue(_, _)
RECURSIVE ParseItems(_, _, _)
RECURSIVE ParseMembers(_, _, _)

\* after "[" or ",": one item, then "," or "]"
ParseItems(txt, i, acc) ==
    LET r == ParseValue(txt, SkipWs(txt, i))
    IN  IF ~r.ok THEN JFail
        ELSE LET j == SkipWs(txt, r.pos)
             IN  IF j > Len(txt) THEN JFail
                 ELSE IF txt[j] = "," THEN ParseItems(txt, j + 1, Append(acc, r.val))
                 ELSE IF txt[j] = "]" THEN JOk(PyList(Append(acc, r.val)), j + 1)
                 ELSE JFail

\* after "{" or ",": "key" : value, then "," or "}"; a repeated key keeps the last value
ParseMembers(txt, i, acc) ==
    LET k == SkipWs(txt, i)
    IN  IF k > Len(txt) \/ txt[k] # "\"" THEN JFail
        ELSE LET key == ScanString(txt, k, k + 1)
             IN  IF ~key.ok THEN JFail
                 ELSE LET c == SkipWs(txt, key.pos)
                      IN  IF c > Len(txt) \/ txt[c] # ":" THEN JFail
                          ELSE LET r == ParseValue(txt, SkipWs(txt, c + 1))
                               IN  IF ~r.ok THEN JFail
                                   ELSE LET j == SkipWs(txt, r.pos)
                                            m == SetItem(acc, key.val.v, r.val)
                                        IN  IF j > Len(txt) THEN JFail
                                            ELSE IF txt[j] = "," THEN ParseMembers(txt, j + 1, m)
                                            ELSE IF txt[j] = "}" THEN JOk(PyDict(m), j + 1)
                                            ELSE JFail

ParseValue(txt, i) ==
    IF i > Len(txt) THEN JFail
    ELSE IF txt[i] = "\"" THEN ScanString(txt, i, i + 1)
    ELSE IF txt[i] = "{" THEN
        LET j == SkipWs(txt, i + 1)
        IN  IF j <= Len(txt) /\ txt[j] = "}" THEN JOk(PyDict(EmptyMap), j + 1)
            ELSE ParseMembers(txt, i + 1, EmptyMap)
    ELSE IF txt[i] = "[" THEN
        LET j == SkipWs(txt, i + 1)
        IN  IF j <= Len(txt) /\ txt[j] = "]" THEN JOk(PyList(<<>>), j + 1)
            ELSE ParseItems(txt, i + 1, <<>>)
    ELSE IF txt[i] = "n" THEN ScanLiteral(txt, i, <<"n", "u", "l", "l">>, PyNone)
    ELSE IF txt[i] = "t" THEN ScanLiteral(txt, i, <<"t", "r", "u", "e">>, PyBool(TRUE))
    ELSE IF txt[i] = "f" THEN ScanLiteral(txt, i, <<"f", "a", "l", "s", "e">>, PyBool(FALSE))
    ELSE IF IsDigit(txt[i]) THEN ScanNumber(txt, i)
    ELSE JFail

\* json.loads(txt): ok = FALSE stands for json.JSONDecodeError
JsonLoads(txt) ==
    LET r == ParseValue(txt, SkipWs(txt, 1))
    IN  IF r.ok /\ SkipWs(txt, r.pos) = Len(txt) + 1 THEN r ELSE JFail

----------------------------------------------------------------------------
(* Exceptions: an outcome is a value or a raised exception with str(e).    *)
(* The messages are CPython's wording.                                     *)

Returned(x) == [raised |-> FALSE, msg |-> <<>>, val |-> x]
Raised(m) == [raised |-> TRUE, msg |-> m, val |-> PyNone]

N_int == <<"i", "n", "t">>
N_bool == <<"b", "o", "o", "l">>
N_NoneType == <<"N", "o", "n", "e", "T", "y", "p", "e">>
N_list == <<"l", "i", "s", "t">>
N_dict == <<"d", "i", "c", "t">>
N_str == <<"s", "t", "r">>
A_lower == <<"l", "o", "w", "e", "r">>
A_startswith == <<"s", "t", "a", "r", "t", "s", "w", "i", "t", "h">>
A_split == <<"s", "p", "l", "i", "t">>
A_strip == <<"s", "t", "r", "i", "p">>
M_ArgumentOfType ==
    << "a", "r", "g", "u", "m", "e", "n", "t", " ", "o", "f", " ", "t", "y", "p", "e", " ", "'" >>
M_NotIterable ==
    << "'", " ", "i", "s", " ", "n", "o", "t", " ", "i", "t", "e", "r", "a", "b", "l", "e" >>
M_ObjectHasNoAttribute ==
    << "'", " ", "o", "b", "j", "e", "c", "t", " ", "h", "a", "s", " ", "n", "o", " ", "a", "t",
       "t", "r", "i", "b", "u", "t", "e", " ", "'" >>
M_ListIndices ==
    << "l", "i", "s", "t", " ", "i", "n", "d", "i", "c", "e", "s", " ", "m", "u", "s", "t", " ",
       "b", "e", " ", "i", "n", "t", "e", "g", "e", "r", "s", " ", "o", "r", " ", "s", "l", "i",
       "c", "e", "s", ",", " ", "n", "o", "t", " ", "s", "t", "r" >>
M_StrItemAssignment ==
    << "'", "s", "t", "r", "'", " ", "o", "b", "j", "e", "c", "t", " ", "d", "o", "e", "s", " ",
       "n", "o", "t", " ", "s", "u", "p", "p", "o", "r", "t", " ", "i", "t", "e", "m", " ", "a",
       "s", "s", "i", "g", "n", "m", "e", "n", "t" >>
M_StringIndices ==
    << "s", "t", "r", "i", "n", "g", " ", "i", "n", "d", "i", "c", "e", "s", " ", "m", "u", "s",
       "t", " ", "b", "e", " ", "i", "n", "t", "e", "g", "e", "r", "s", ",", " ", "n", "o", "t",
       " ", "'", "s", "t", "r", "'" >>

TypeName(x) ==
    CASE x.t = "int" -> N_int
      [] x.t = "bool" -> N_bool
      [] x.t = "NoneType" -> N_NoneType
      [] x.t = "list" -> N_list
      [] x.t = "dict" -> N_dict
      [] x.t = "str" -> N_str

\* AttributeError of x.attr
NoAttribute(x, attr) == <<"'">> \o TypeName(x) \o M_ObjectHasNoAttribute \o attr \o <<"'">>
\* TypeError of `key in x`
NotIterable(x) == M_ArgumentOfType \o TypeName(x) \o M_NotIterable

\* `key in x` for a string key: dict key, list element, substring, else TypeError
In(key, x) ==
    CASE x.t = "dict" -> Returned(key \in DOMAIN x.v)
      [] x.t = "list" -> Returned(\E i \in 1..Len(x.v) : x.v[i] = PyStr(key))
      [] x.t = "str" -> Returned(Contains(x.v, key))
      [] OTHER -> Raised(NotIterable(x))

\* x[key] = value for a string key
SetKey(x, key, value) ==
    CASE x.t = "dict" -> Returned(PyDict(SetItem(x.v, key, value)))
      [] x.t = "list" -> Raised(M_ListIndices)
      [] x.t = "str" -> Raised(M_StrItemAssignment)

\* x[key] for a string key that `key in x` found
GetKey(x, key) ==
    CASE x.t = "dict" -> Returned(x.v[key])
      [] x.t = "list" -> Raised(M_ListIndices)
      [] x.t = "str" -> Raised(M_StringIndices)

\* truth value of x
Truthy(x) ==
    CASE x.t = "NoneType" -> FALSE
      [] x.t = "bool" -> x.v
      [] x.t = "int" -> x.v # 0
      [] x.t = "str" -> x.v # <<>>
      [] x.t = "list" -> x.v # <<>>
      [] x.t = "dict" -> DOMAIN x.v # {}

----------------------------------------------------------------------------
(* groq_vision.detect_sleep                                                *)

ResultDict(status, confidence, details) ==
    PyDict((K_status :> PyStr(status)) @@ (K_confidence :> PyStr(confidence))
           @@ (K_details :> PyStr(details)))

\* a variant that prefixes every input
NormalizeImageUrl_AlwaysPrefix(base64_image) == JpegPrefix \o base64_image

\* image_url of the request to the model
NormalizeImageUrl(base64_image) ==
    IF ~StartsWith(base64_image, DataScheme)
    THEN JpegPrefix \o base64_image
    ELSE base64_image

\* a line of the reply that the fence handling drops
IsDroppedLine(l) == StartsWith(l, Fence)
KeepLine(l) == ~IsDroppedLine(l)

\* result_text handed to json.loads
StripFence(result_text) ==
    IF StartsWith(result_text, Fence)
    THEN Strip(Join(SelectSeq(Split(result_text, "\n"), KeepLine), Newline))
    ELSE result_text

\* if key not in result: result[key] = default
EnsureKey(result, key, default) ==
    LET present == In(key, result)
    IN  IF present.raised THEN Raised(present.msg)
        ELSE IF present.val THEN Returned(result)
        ELSE SetKey(result, key, PyStr(default))

\* a variant that forgets the trim
LowerStrip_NoStrip(s) == Lower(s)

LowerStrip(s) == Strip(Lower(s))

\* a variant that leaves an unrecognized status in place
ForceStatus_Unforced(s) == s

ForceStatus(s) == IF s \notin {S_sleeping, S_awake} THEN S_awake ELSE s

\* result["status"] = result["status"].lower().strip(), then forced into the two values
NormalizeStatus(result) ==
    LET status == GetKey(result, K_status)
    IN  IF status.raised THEN Raised(status.msg)
        ELSE IF status.val.t # "str" THEN Raised(NoAttribute(status.val, A_lower))
        ELSE SetKey(result, K_status, PyStr(ForceStatus(LowerStrip(status.val.v))))

\* the statements between json.loads and `return result`
ValidateAndNormalize(parsed) ==
    LET r1 == EnsureKey(parsed, K_status, S_awake)
    IN  IF r1.raised THEN r1
        ELSE LET r2 == EnsureKey(r1.val, K_confidence, S_low)
             IN  IF r2.raised THEN r2
                 ELSE LET r3 == EnsureKey(r2.val, K_details, AnalysisCompleted)
                      IN  IF r3.raised THEN r3 ELSE NormalizeStatus(r3.val)

\* except json.JSONDecodeError
KeywordFallback(result_text) ==
    IF Contains(Lower(result_text), S_sleep)
    THEN ResultDict(S_sleeping, S_medium, FallbackSleepingDetails)
    ELSE ResultDict(S_awake, S_low, FallbackAwakeDetails)

\* except Exception as e
ErrorResult(msg) == ResultDict(S_error, S_none, ErrorDetailsPrefix \o msg)

\* detect_sleep from the model's reply on: the text parsed, the return taken, the result
HandleReply(content) ==
    LET text == StripFence(Strip(content))
        parsed == JsonLoads(text)
    IN  IF ~parsed.ok
        THEN [text |-> text, branch |-> "fallback", result |-> KeywordFallback(text)]
        ELSE LET n == ValidateAndNormalize(parsed.val)
             IN  IF n.raised
                 THEN [text |-> text, branch |-> "error", result |-> ErrorResult(n.msg)]
                 ELSE [text |-> text, branch |-> "parsed", result |-> n.val]

----------------------------------------------------------------------------
(* app.detect: the POST /detect handler                                    *)

MinImageLen == 100

HttpResponse(code, body) == [code |-> code, body |-> body]
NoImageResponse == HttpResponse(400, ResultDict(S_error, S_none, NoImageDetails))
TooSmallResponse == HttpResponse(400, ResultDict(S_error, S_none, TooSmallDetails))
\* an exception that leaves the view: the framework's 500 page
InternalServerError == HttpResponse(500, [t |-> "html", v |-> <<>>])
NoResponse == HttpResponse(0, PyNone)

\* not data or "image" not in data
MissingImage(data) ==
    IF ~Truthy(data) THEN Returned(TRUE)
    ELSE LET present == In(K_image, data)
         IN  IF present.raised THEN present ELSE Returned(~present.val)

\* base64_image.split(",")[-1] if "," in base64_image else base64_image
RawB64(base64_image) ==
    LET has == In(Comma, base64_image)
    IN  IF has.raised THEN has
        ELSE IF ~has.val THEN Returned(base64_image)
        ELSE IF base64_image.t # "str" THEN Raised(NoAttribute(base64_image, A_split))
        ELSE LET parts == Split(base64_image.v, ",")
             IN  Returned(PyStr(parts[Len(parts)]))

\* len(x) of a string, list or dict
PyLen(x) == IF x.t = "dict" THEN Cardinality(DOMAIN x.v) ELSE Len(x.v)

TooSmall(raw_b64) == PyLen(raw_b64) < MinImageLen

\* a variant that passes the stripped payload on
DetectorArgument_Stripped(base64_image, raw_b64) == raw_b64

\* the argument of the call detect_sleep(...)
DetectorArgument(base64_image, raw_b64) == base64_image

\* the view up to the call of detect_sleep: a response, or the call's argument
Validate(data) ==
    LET missing == MissingImage(data)
    IN  IF missing.raised THEN [call |-> FALSE, arg |-> PyNone, response |-> InternalServerError]
        ELSE IF missing.val THEN [call |-> FALSE, arg |-> PyNone, response |-> NoImageResponse]
        ELSE LET image == GetKey(data, K_image)
             IN  IF image.raised
                 THEN [call |-> FALSE, arg |-> PyNone, response |-> InternalServerError]
                 ELSE LET raw == RawB64(image.val)
                      IN  IF raw.raised
                          THEN [call |-> FALSE, arg |-> PyNone, response |-> InternalServerError]
                          ELSE IF TooSmall(raw.val)
                          THEN [call |-> FALSE, arg |-> PyNone, response |-> TooSmallResponse]
                          ELSE [call |-> TRUE, arg |-> DetectorArgument(image.val, raw.val),
                                response |-> NoResponse]

----------------------------------------------------------------------------
(* Inputs: request bodies as request.get_json() returns them, replies and  *)
(* failures of the model.                                                  *)

\* payload lengths range this far on both sides of MinImageLen
MaxDelta == 1
\* whitespace characters put before and after a reply
MaxPad == 1

Repeat(c, n) == [i \in 1..n |-> c]

PngPrefix ==
    << "d", "a", "t", "a", ":", "i", "m", "a", "g", "e", "/", "p", "n", "g", ";", "b", "a", "s",
       "e", "6", "4", "," >>
ImagePrefixes == {<<>>, JpegPrefix, PngPrefix, <<"x">> \o JpegPrefix}
PayloadLens == {0} \cup ((MinImageLen - MaxDelta)..(MinImageLen + MaxDelta))
ImageSuffixes == {<<>>, <<",", "B">>}
ImageStrings ==
    {p \o Repeat("A", n) \o s : p \in ImagePrefixes, n \in PayloadLens, s \in ImageSuffixes}

ImageValues ==
    {PyStr(s) : s \in ImageStrings}
    \cup {PyInt(5), PyNone, PyList(<<PyStr(Comma)>>), PyDict(EmptyMap)}
    \cup {PyList(Repeat(PyInt(0), n)) : n \in PayloadLens}

K_other == <<"o", "t", "h", "e", "r">>
Bodies ==
    {PyDict(K_image :> v) : v \in ImageValues}
    \cup {PyNone, PyInt(0), PyInt(5), PyBool(FALSE), PyBool(TRUE), PyStr(<<>>),
          PyStr(K_image), PyStr(K_other), PyList(<<>>), PyList(<<PyStr(K_image)>>),
          PyList(<<PyStr(K_other)>>), PyDict(EmptyMap), PyDict(K_other :> PyInt(1))}

Quote(s) == <<"\"">> \o s \o <<"\"">>
Member(key, valueText) == Quote(key) \o <<":", " ">> \o valueText
ObjectText(members) == <<"{">> \o Join(members, <<",", " ">>) \o <<"}">>

S_Sleeping == <<"S", "l", "e", "e", "p", "i", "n", "g">>
S_SLEEPING_sp == <<"S", "L", "E", "E", "P", "I", "N", "G", " ">>
S_sp_Awake == <<" ", "A", "w", "a", "k", "e">>
S_unknown == <<"u", "n", "k", "n", "o", "w", "n">>
S_HIGH == <<"H", "I", "G", "H">>
S_eyes_closed == <<"e", "y", "e", "s", " ", "c", "l", "o", "s", "e", "d">>
K_note == <<"n", "o", "t", "e">>
T_null == <<"n", "u", "l", "l">>
T_true == <<"t", "r", "u", "e">>
T_all_keys ==
    << "s", "t", "a", "t", "u", "s", " ", "c", "o", "n", "f", "i", "d", "e", "n", "c", "e", " ",
       "d", "e", "t", "a", "i", "l", "s" >>
T_person_sleeping ==
    << "T", "h", "e", " ", "p", "e", "r", "s", "o", "n", " ", "i", "s", " ", "s", "l", "e", "e",
       "p", "i", "n", "g" >>
T_person_asleep ==
    << "P", "e", "r", "s", "o", "n", " ", "l", "o", "o", "k", "s", " ", "A", "S", "L", "E", "E",
       "P" >>
T_cannot_tell == <<"I", " ", "c", "a", "n", "n", "o", "t", " ", "t", "e", "l", "l">>
T_json == <<"j", "s", "o", "n">>

StatusTexts ==
    {Quote(S_sleeping), Quote(S_awake), Quote(S_Sleeping), Quote(S_SLEEPING_sp),
     Quote(S_sp_Awake), Quote(S_unknown), <<"5">>, T_null}
ConfidenceTexts == {Quote(S_high), Quote(S_HIGH)}
DetailsTexts == {Quote(S_eyes_closed)}
NoteTexts == {<<"1">>}

Optional(key, texts) == {<<>>} \cup {<<Member(key, t)>> : t \in texts}

ObjectReplies ==
    {ObjectText(s \o c \o d \o n) :
        s \in Optional(K_status, StatusTexts), c \in Optional(K_confidence, ConfidenceTexts),
        d \in Optional(K_details, DetailsTexts), n \in Optional(K_note, NoteTexts)}
OtherJsonReplies ==
    {<<"[", "]">>, <<"[">> \o Quote(K_status) \o <<"]">>, <<"5">>, T_null, T_true,
     Quote(S_sleeping), Quote(T_all_keys)}
ProseReplies ==
    {T_person_sleeping, T_person_asleep, T_cannot_tell, <<>>,
     <<"{">> \o Quote(K_status) \o <<":">>}
ReplyBodies == ObjectReplies \cup OtherJsonReplies \cup ProseReplies

Replies ==
    {Repeat(" ", n) \o b \o Repeat("\n", n) : b \in ReplyBodies, n \in 0..MaxPad}
    \cup {Fence \o T_json \o Newline \o b \o Newline \o Fence : b \in ReplyBodies}
    \cup {Fence \o b \o Fence : b \in ReplyBodies}

E_connection ==
    << "C", "o", "n", "n", "e", "c", "t", "i", "o", "n", " ", "e", "r", "r", "o", "r", "." >>
E_timeout ==
    << "R", "e", "q", "u", "e", "s", "t", " ", "t", "i", "m", "e", "d", " ", "o", "u", "t", "." >>
ModelErrors == {E_connection, E_timeout}

----------------------------------------------------------------------------
(* One request at a time: received, possibly waiting for the model,        *)
(* answered.                                                               *)

VARIABLES
    pc,            \* "idle", "model" (detect_sleep waits for the model), "done"
    data,          \* request.get_json()
    calls,         \* invocations of detect_sleep for this request
    base64_image,  \* the argument detect_sleep was called with
    dispatched,    \* whether a request went to the model
    image_url,     \* the url of that request
    content,       \* response.choices[0].message.content, a string
    replied,       \* whether the model returned a text reply
    result_text,   \* detect_sleep's result_text when it left the try block
    branch,        \* the return detect_sleep took: "parsed", "fallback", "error"
    result,        \* what detect_sleep returned
    response       \* the HTTP response

vars == <<pc, data, calls, base64_image, dispatched, image_url, content, replied,
          result_text, branch, result, response>>

Init ==
    /\ pc = "idle"
    /\ data = PyNone
    /\ calls = 0
    /\ base64_image = PyNone
    /\ dispatched = FALSE
    /\ image_url = <<>>
    /\ content = <<>>
    /\ replied = FALSE
    /\ result_text = <<>>
    /\ branch = "none"
    /\ result = PyNone
    /\ response = NoResponse

\* POST /detect arrives: the view runs until it answers or detect_sleep calls the model
Detect(d) ==
    /\ pc = "idle"
    /\ data' = d
    /\ LET v == Validate(d)
       IN  IF ~v.call
           THEN /\ pc' = "done"
                /\ response' = v.response
                /\ UNCHANGED <<calls, base64_image, dispatched, image_url, branch, result>>
           ELSE /\ calls' = calls + 1
                /\ base64_image' = v.arg
                /\ IF v.arg.t # "str"
                   THEN \* base64_image.startswith raises inside the try block
                        /\ pc' = "done"
                        /\ branch' = "error"
                        /\ result' = ErrorResult(NoAttribute(v.arg, A_startswith))
                        /\ response' = HttpResponse(200, result')
                        /\ UNCHANGED <<dispatched, image_url>>
                   ELSE /\ pc' = "model"
                        /\ dispatched' = TRUE
                        /\ image_url' = NormalizeImageUrl(v.arg.v)
                        /\ UNCHANGED <<branch, result, response>>
    /\ UNCHANGED <<content, replied, result_text>>

\* the model returns a completion with text c
ModelReplies(c) ==
    /\ pc = "model"
    /\ content' = c
    /\ replied' = TRUE
    /\ LET h == HandleReply(c)
       IN  /\ result_text' = h.text
           /\ branch' = h.branch
           /\ result' = h.result
           /\ response' = HttpResponse(200, h.result)
    /\ pc' = "done"
    /\ UNCHANGED <<data, calls, base64_image, dispatched, image_url>>

\* client.chat.completions.create raises an exception (network, timeout, API error)
\* that is no json.JSONDecodeError; m is str(e)
ModelFails(m) ==
    /\ pc = "model"
    /\ branch' = "error"
    /\ result' = ErrorResult(m)
    /\ response' = HttpResponse(200, result')
    /\ pc' = "done"
    /\ UNCHANGED <<data, calls, base64_image, dispatched, image_url, content, replied,
                   result_text>>

\* the completion carries no text: content is None and .strip() raises
ModelRepliesNoContent ==
    /\ pc = "model"
    /\ branch' = "error"
    /\ result' = ErrorResult(NoAttribute(PyNone, A_strip))
    /\ response' = HttpResponse(200, result')
    /\ pc' = "done"
    /\ UNCHANGED <<data, calls, base64_image, dispatched, image_url, content, replied,
                   result_text>>

\* the next request starts from scratch: nothing is kept between requests
NextRequest ==
    /\ pc = "done"
    /\ pc' = "idle"
    /\ data' = PyNone
    /\ calls' = 0
    /\ base64_image' = PyNone
    /\ dispatched' = FALSE
    /\ image_url' = <<>>
    /\ content' = <<>>
    /\ replied' = FALSE
    /\ result_text' = <<>>
    /\ branch' = "none"
    /\ result' = PyNone
    /\ response' = NoResponse

Next ==
    \/ \E d \in Bodies : Detect(d)
    \/ \E c \in Replies : ModelReplies(c)
    \/ \E m \in ModelErrors : ModelFails(m)
    \/ ModelRepliesNoContent
    \/ NextRequest

Spec == Init /\ [][Next]_vars

----------------------------------------------------------------------------
(* Properties.                                                             *)

TypeOK == pc \in {"idle", "model", "done"}

StatusEnum == {PyStr(S_sleeping), PyStr(S_awake), PyStr(S_error)}
ConfidenceEnum == {PyStr(S_high), PyStr(S_medium), PyStr(S_low), PyStr(S_none)}
ThreeKeys == {K_status, K_confidence, K_details}

\* detect_sleep has returned for the current request
Returned_ == pc = "done" /\ calls > 0
\* what json.loads made of the text handed to it
Parsed == JsonLoads(result_text)
ParsedObject == replied /\ Parsed.ok /\ Parsed.val.t = "dict"

\* C1, as stated: every result of detect_sleep has the three fields, with status
\* in {sleeping, awake, error} and confidence in {high, medium, low, none}.
C1_Original ==
    Returned_ =>
        /\ result.t = "dict"
        /\ ThreeKeys \subseteq DOMAIN result.v
        /\ result.v[K_status] \in StatusEnum
        /\ result.v[K_confidence] \in ConfidenceEnum

\* C1, amended: every result of detect_sleep has the three fields and a status in
\* {sleeping, awake, error}; its confidence is in {high, medium, low, none} on the
\* fallback and exception paths and when the model's object had none, and is the
\* model's own value, unchanged, when the parsed object carried one.
C1_ResultWellFormed ==
    Returned_ =>
        /\ result.t = "dict"
        /\ ThreeKeys \subseteq DOMAIN result.v
        /\ result.v[K_status] \in StatusEnum
        /\ IF branch = "parsed" /\ K_confidence \in DOMAIN Parsed.val.v
           THEN result.v[K_confidence] = Parsed.val.v[K_confidence]
           ELSE result.v[K_confidence] \in ConfidenceEnum

\* a parsed reply whose confidence "HIGH" is returned as it came
C1_Witness ==
    /\ Returned_ /\ branch = "parsed"
    /\ result.v[K_confidence] = PyStr(S_HIGH)
    /\ result.v[K_status] = PyStr(S_sleeping)

C3_Original ==
    (pc = "done" /\ replied /\ ~Parsed.ok) =>
        /\ branch # "error"
        /\ result = IF Contains(Lower(content), S_sleep)
                    THEN ResultDict(S_sleeping, S_medium, FallbackSleepingDetails)
                    ELSE ResultDict(S_awake, S_low, FallbackAwakeDetails)

\* C4: status error is returned only when the model call fails, then with
\* confidence none and the prefixed message; a text reply always gives sleeping
\* or awake.
C4_Original ==
    Returned_ =>
        /\ result.v[K_status] = PyStr(S_error)
              => /\ ~replied
                 /\ result.v[K_confidence] = PyStr(S_none)
                 /\ StartsWith(result.v[K_details].v, ErrorDetailsPrefix)
        /\ replied => result.v[K_status] \in {PyStr(S_sleeping), PyStr(S_awake)}

\* C5: a body that is no object with the image key is answered 400 with the
\* "No image data provided" result, and detect_sleep is not invoked.
C5_Original ==
    (pc = "done" /\ (data.t # "dict" \/ K_image \notin DOMAIN data.v))
    => response = NoImageResponse /\ calls = 0

\* the image with its data-URI prefix, when it has one, removed up to the comma
StripDataUriPrefix(s) ==
    IF StartsWith(s, DataScheme) /\ \E i \in 1..Len(s) : s[i] = ","
    THEN LET k == CHOOSE i \in 1..Len(s) : s[i] = "," /\ \A j \in 1..(i - 1) : s[j] # ","
         IN  SubSeq(s, k + 1, Len(s))
    ELSE s

\* C6: an image whose payload after the data-URI prefix is shorter than 100
\* characters is answered 400 "too small" without invoking detect_sleep; a payload
\* of 100 or more characters is not rejected for its size.
C6_Original ==
    (pc = "done" /\ data.t = "dict" /\ K_image \in DOMAIN data.v
        /\ data.v[K_image].t = "str")
    => IF Len(StripDataUriPrefix(data.v[K_image].v)) < MinImageLen
       THEN response = TooSmallResponse /\ calls = 0
       ELSE response # TooSmallResponse

\* the text after the last comma of s, all of s when it has none
AfterLastComma(s) ==
    LET commas == {i \in 1..Len(s) : s[i] = ","}
    IN  IF commas = {} THEN s
        ELSE SubSeq(s, (CHOOSE i \in commas : \A j \in commas : j <= i) + 1, Len(s))

C8_Original ==
    (pc = "done" /\ ParsedObject) =>
        LET given == Parsed.val.v
        IN  /\ result.t = "dict"
            /\ DOMAIN result.v = DOMAIN given \cup ThreeKeys
            /\ \A k \in DOMAIN given \ {K_status} : result.v[k] = given[k]
            /\ K_confidence \notin DOMAIN given => result.v[K_confidence] = PyStr(S_low)
            /\ K_details \notin DOMAIN given
                  => result.v[K_details] = PyStr(AnalysisCompleted)
            /\ result.v[K_status] \in {PyStr(S_sleeping), PyStr(S_awake)}

\* C9: the url sent to the model starts with the data-URI scheme marker: an image
\* string that already starts with it is sent unchanged, any other is sent with
\* "data:image/jpeg;base64," put before it; normalizing twice changes nothing more.
C9_DataUriNormalized ==
    dispatched =>
        LET given == base64_image.v
            marked == Len(given) >= 5 /\ SubSeq(given, 1, 5) = <<"d", "a", "t", "a", ":">>
        IN  /\ SubSeq(image_url, 1, 5) = <<"d", "a", "t", "a", ":">>
            /\ marked => image_url = given
            /\ ~marked => image_url = JpegPrefix \o given
            /\ NormalizeImageUrl(image_url) = image_url

\* an image that already carried a png data-URI prefix was sent as it came
C9_Witness ==
    /\ dispatched
    /\ StartsWith(base64_image.v, PngPrefix)
    /\ image_url = base64_image.v

Letters == {UpperLetters[i] : i \in 1..26} \cup {LowerLetters[i] : i \in 1..26}
\* a line that is nothing but a fence: fence marks and at most a language tag
IsPureFence(l) ==
    /\ StartsWith(l, Fence)
    /\ \A i \in 4..Len(l) : l[i] \in Letters \cup {BACKTICK}
NotPureFence(l) == ~IsPureFence(l)

\* C10: of a reply that starts with a code fence, exactly the lines that are
\* purely fence syntax are dropped; every other line is kept, in order, joined
\* with newlines, and that text is what is parsed.
C10_Original ==
    (pc = "done" /\ replied /\ StartsWith(Strip(content), Fence))
    => result_text =
           Strip(Join(SelectSeq(Split(Strip(content), "\n"), NotPureFence), Newline))
=============================================================================
